---- MODULE Spec2Model ----
(***************************************************************************)
(* Callback-identity reconciliation of AndroidNavigationBaseTemplate:      *)
(* parseConfig walks a raw configuration, moves callbacks into the         *)
(* template's pressableCallbacks registry, prunes the registry, and the    *)
(* 'buttonPressed' listener dispatches host events to the registry.        *)
(*                                                                         *)
(* JavaScript objects are functions from their own keys to values; a key   *)
(* that is absent is not in the DOMAIN.  A node's id that is present but   *)
(* undefined holds the value Undefined.  Keys of a configuration or pane   *)
(* that are present with the value undefined are listed in its "undef"     *)
(* field (a set of key names), because a list and undefined have no common *)
(* representation.                                                         *)
(***************************************************************************)
EXTENDS Integers, Sequences, FiniteSets, TLC

\* ---------------------------------------------------------------- bounds
\* identifiers the generator may hand out in one behaviour
MaxGen == 3
\* nodes (or empty slots) of a configuration of the single-call specification
MaxWalkNodes == 2
\* nodes of the actions list of a configuration of the sequence specifications
MaxNodes == 1

\* ---------------------------------------------------------------- domains
Owners == {"t1", "t2"}
FirstOwner == "t1"
ExplicitIds == {"x"}
Fns == {"f1", "f2"}
Undefined == "<undefined>"
Absent == "<absent>"
Slots == {"actions", "mapButtons", "navigateAction", "paneActions", "buttons"}

Range(s) == {s[i] : i \in DOMAIN s}
EmptyObject == <<>>

\* A node with the given id option (Absent, Undefined or an id) and callback
\* option (Absent or a callback).
Node(i, c) ==
  (IF i = Absent THEN EmptyObject ELSE "id" :> i)
    @@ (IF c = Absent THEN EmptyObject ELSE "onPress" :> c)

Nodes == {Node(i, c) : i \in {Absent, Undefined} \cup ExplicitIds, c \in {Absent} \cup Fns}

\* ------------------------------------------------- Object.prototype lookups
\* pressableCallbacks is a plain object ({} and Object.fromEntries): a lookup
\* of a key that is not an own key falls through to Object.prototype.
\* Called bare (this === undefined in strict mode), hasOwnProperty throws a
\* TypeError; it stands for the members of Object.prototype.
ObjectPrototype == [hasOwnProperty |-> "Object.prototype.hasOwnProperty"]
ThrowsWhenCalledBare == {"Object.prototype.hasOwnProperty"}

\* this.pressableCallbacks[buttonId]
Lookup(cb, buttonId) ==
  IF buttonId \in DOMAIN cb THEN cb[buttonId]
  ELSE IF buttonId \in DOMAIN ObjectPrototype THEN ObjectPrototype[buttonId]
  ELSE Undefined

\* -------------------------------------------------------- identifier generator
\* getCallbackActionId(): the n-th identifier handed out; distinct from every
\* earlier one and from the caller's explicit identifiers.
GenId(n) == "g" \o ToString(n)

\* ------------------------------------------------------------ registry steps
\* (variant: an entry that exists is kept, as in cb[id] ??= onPress)
UpsertKeepFirst(cb, id, fn) == cb @@ (id :> fn)

\* this.pressableCallbacks[id] = onPress
Upsert(cb, id, fn) == (id :> fn) @@ cb

\* (variant: no prune at all)
PruneNothing(cb, callbackIds) == cb

\* (variant: the filter is negated)
PruneInverted(cb, callbackIds) ==
  [k \in {j \in DOMAIN cb : j \notin Range(callbackIds)} |-> cb[k]]

\* Object.fromEntries(Object.entries(cb).filter(([id]) => callbackIds.includes(id)))
Prune(cb, callbackIds) ==
  [k \in {j \in DOMAIN cb : j \in Range(callbackIds)} |-> cb[k]]

\* const { onPress, ...rest } = node
WithoutOnPress(node) == [k \in DOMAIN node \ {"onPress"} |-> node[k]]

\* ---------------------------------------------------------------- the walk
\* The walk threads w = [cb, ids, next, gen, out]: the registry, callbackIds,
\* the generator's counter, the slots that asked the generator for an
\* identifier, and updatedConfig as built so far.
StartWalk(cb, next, config) ==
  [cb |-> cb, ids |-> <<>>, next |-> next, gen |-> <<>>, out |-> EmptyObject]

\* getCallbackActionId() on behalf of a node of the slot
Generate(w, slot) == [w EXCEPT !.next = @ + 1, !.gen = Append(@, slot)]

\* (variant: the identifier is not recorded as alive)
CollectDropped(w, id) == w

\* callbackIds.push(id)
Collect(w, id) == [w EXCEPT !.ids = Append(@, id)]

\* return node (unchanged).  Result of a map callback: [w, out].
Keep(w, node) == [w |-> w, out |-> node]

\* this.pressableCallbacks[id] = onPress; return { ...rest, id }
Register(w, node, id) ==
  [w |-> [w EXCEPT !.cb = Upsert(@, id, node.onPress)],
   out |-> ("id" :> id) @@ WithoutOnPress(node)]

\* The map callback of actions / mapButtons / pane.actions once id is known.
ActionWithId(w, action, id) ==
  IF id = Undefined THEN Keep(w, action)
  ELSE IF "onPress" \notin DOMAIN action THEN Keep(Collect(w, id), action)
  ELSE Register(Collect(w, id), action, id)

\* (variant: the explicit identifier is ignored, every node gets a fresh one)
NormalizeActionFreshId(w, action, slot) ==
  ActionWithId(Generate(w, slot), action, GenId(w.next + 1))

\* One element of actions / mapButtons / pane.actions (the three copies of the
\* callback are the same code): 'id' in action ? action.id : getCallbackActionId()
NormalizeAction(w, action, slot) ==
  IF "id" \in DOMAIN action THEN ActionWithId(w, action, action.id)
  ELSE ActionWithId(Generate(w, slot), action, GenId(w.next + 1))

\* The map callback of buttons once id is known.
ButtonWithId(w, button, id) ==
  IF "onPress" \notin DOMAIN button THEN Keep(Collect(w, id), button)
  ELSE Register(Collect(w, id), button, id)

\* One element of buttons: button.id ?? getCallbackActionId()
NormalizeButton(w, button, slot) ==
  IF "id" \in DOMAIN button /\ button.id # Undefined THEN ButtonWithId(w, button, button.id)
  ELSE ButtonWithId(Generate(w, slot), button, GenId(w.next + 1))

Normalize(w, node, slot) ==
  IF slot = "buttons" THEN NormalizeButton(w, node, slot)
  ELSE NormalizeAction(w, node, slot)

\* list.map(node => ...): left to right, threading the walk state.
\* Result: [w, out], out the list of the callbacks' results.
\* (variant: the element's result is put behind the results of the later ones)
PrependReversed(head, rest) == [w |-> rest.w, out |-> rest.out \o <<head.out>>]

Prepend(head, rest) == [w |-> rest.w, out |-> <<head.out>> \o rest.out]

RECURSIVE MapList(_, _, _)
MapFrom(head, list, slot) == Prepend(head, MapList(head.w, Tail(list), slot))

MapList(w, list, slot) ==
  IF list = <<>> THEN [w |-> w, out |-> <<>>]
  ELSE MapFrom(Normalize(w, Head(list), slot), list, slot)

\* Keys of a JavaScript object that are present with the value undefined.
Undef(obj) == IF "undef" \in DOMAIN obj THEN obj.undef ELSE {}
Has(obj, key) == key \in DOMAIN obj \/ key \in Undef(obj)
WithUndef(obj, keys) ==
  IF keys = {} THEN obj
  ELSE ("undef" :> (keys \cup Undef(obj))) @@ obj

\* updatedConfig[key] = value, updatedConfig[key] = undefined
SetField(w, key, value) == [w EXCEPT !.out = (key :> value) @@ @]
SetUndefined(w, key) == [w EXCEPT !.out = WithUndef(@, {key})]

\* The walk state after a slot's list was mapped (r is MapList's result).
SetList(r, key) == SetField(r.w, key, r.out)
SetPane(r, pane) == SetField(r.w, "pane", ("actions" :> r.out) @@ pane)

\* updatedPane (pane ? { ...pane, actions: pane?.actions?.map(...) } : undefined)
WalkPane(w, config) ==
  IF "pane" \notin DOMAIN config THEN SetUndefined(w, "pane")
  ELSE IF "actions" \notin DOMAIN config.pane
       THEN SetField(w, "pane", WithUndef(config.pane, {"actions"}))
       ELSE SetPane(MapList(w, config.pane.actions, "paneActions"), config.pane)

\* updatedButtons (buttons ? buttons.map(...) : undefined)
WalkButtons(w, config) ==
  IF "buttons" \notin DOMAIN config THEN SetUndefined(w, "buttons")
  ELSE SetList(MapList(w, config.buttons, "buttons"), "buttons")

\* if (actions != null) / if (mapButtons): arrays are truthy, also when empty
WalkList(w, config, key) ==
  IF key \notin DOMAIN config THEN w
  ELSE SetList(MapList(w, config[key], key), key)

\* The body of if (navigateAction) once id is known: the field is set only
\* when the id is not null.
NavigateActionWithId(w, nav, id) ==
  IF id = Undefined THEN w
  ELSE IF "onPress" \in DOMAIN nav
       THEN SetList(Register(Collect(w, id), nav, id), "navigateAction")
       ELSE SetField(Collect(w, id), "navigateAction", nav)

\* if (navigateAction) { const id = 'id' in navigateAction ? ... }
WalkNavigateAction(w, config) ==
  IF "navigateAction" \notin DOMAIN config THEN w
  ELSE IF "id" \in DOMAIN config.navigateAction
       THEN NavigateActionWithId(w, config.navigateAction, config.navigateAction.id)
       ELSE NavigateActionWithId(Generate(w, "navigateAction"), config.navigateAction,
                                 GenId(w.next + 1))

\* const { actions, mapButtons, navigateAction, pane, buttons, ...rest } = config
Rest(config) ==
  [k \in DOMAIN config \ {"actions", "mapButtons", "navigateAction", "pane", "buttons"}
     |-> config[k]]

\* updatedConfig = { ...rest, pane: updatedPane, buttons: updatedButtons }
WithRest(w, config) == [w EXCEPT !.out = @ @@ Rest(config)]

\* The prune that ends the walk.  Result: the registry, the generator's
\* counter, updatedConfig (the argument of super.parseConfig), callbackIds
\* and the slots that asked for a generated identifier.
EndWalk(w) ==
  [cb |-> Prune(w.cb, w.ids), next |-> w.next, updatedConfig |-> w.out,
   callbackIds |-> w.ids, gen |-> w.gen]

\* (variant: the slots are walked in the order actions, mapButtons,
\* navigateAction, pane, buttons)
ParseConfigListedOrder(cb, next, config) ==
  EndWalk(
    WithRest(
      WalkButtons(
        WalkPane(
          WalkNavigateAction(
            WalkList(WalkList(StartWalk(cb, next, config), config, "actions"),
                     config, "mapButtons"),
            config),
          config),
        config),
      config))

\* parseConfig(config) of a template whose registry is cb, with the generator
\* at next: pane, buttons, actions, mapButtons, navigateAction, prune.
ParseConfig(cb, next, config) ==
  EndWalk(
    WalkNavigateAction(
      WalkList(
        WalkList(
          WithRest(WalkButtons(WalkPane(StartWalk(cb, next, config), config), config), config),
          config, "actions"),
        config, "mapButtons"),
      config))

\* ------------------------------------------------------------ input domains
\* Lists of exactly n nodes.
Lists(n) == [1..n -> Nodes]

\* The ways to fill one slot at a cost of exactly k: a list of k nodes, an
\* empty list or a pane without actions (cost 1), one navigateAction (cost 1).
Fragments(slot, k) ==
  LET lists == Lists(k) \cup (IF k = 1 THEN {<<>>} ELSE {})
  IN CASE slot = "navigateAction" ->
            IF k = 1 THEN {"navigateAction" :> n : n \in Nodes} ELSE {}
       [] slot = "paneActions" ->
            {"pane" :> ("actions" :> l) : l \in lists}
              \cup (IF k = 1 THEN {"pane" :> EmptyObject} ELSE {})
       [] OTHER -> {slot :> l : l \in lists}

SlotOrder == <<"actions", "mapButtons", "navigateAction", "paneActions", "buttons">>

\* Configurations over the slots SlotOrder[i..] at a total cost of at most n.
RECURSIVE ConfigsFrom(_, _)
ConfigsFrom(i, n) ==
  IF i > Len(SlotOrder) THEN {EmptyObject}
  ELSE ConfigsFrom(i + 1, n)
         \cup UNION {{f @@ c : f \in Fragments(SlotOrder[i], k), c \in ConfigsFrom(i + 1, n - k)}
                       : k \in 1..n}

\* All five slots, up to MaxWalkNodes nodes.
WalkConfigs == ConfigsFrom(1, MaxWalkNodes)
\* The actions list only, up to MaxNodes nodes.
ActionConfigs == {EmptyObject} \cup UNION {Fragments("actions", k) : k \in 1..MaxNodes}

\* Identifiers the host may send: explicit and generated ones, names that
\* Object.prototype defines, and one that no configuration ever used.
UnknownId == "z"
FireIds(generated) ==
  ExplicitIds \cup {GenId(n) : n \in 1..generated} \cup DOMAIN ObjectPrototype \cup {UnknownId}

\* -------------------------------------------------------------------- state
VARIABLES
  templates,           \* the constructed templates; each subscribed its listener (100-111)
  pressableCallbacks,  \* per template: the registry, identifier -> callback (79-81)
  nextId,              \* identifiers handed out by getCallbackActionId so far
  lastCall,            \* history: the latest parseConfig call, its input and results
  lastFire,            \* history: the latest 'buttonPressed' event
  invoked,             \* per template: what its listener called for the latest event
  raised               \* templates whose listener threw for the latest event

vars == <<templates, pressableCallbacks, nextId, lastCall, lastFire, invoked, raised>>

\* --------------------------------------------- state of the telemetry observer
\* object CarPlayTelemetryObserver (CarPlayTelemetryObserver.kt)
VARIABLES
  isRunning,         \* private var isRunning (20)
  carContext,        \* private var carContext (21): a car context or NoContext
  eventEmitter,      \* private var eventEmitter (22): TRUE once it is set
  telemetry,         \* private val telemetry (24): key -> value of the entry
  isTelemetryDirty,  \* private var isTelemetryDirty (25)
  pending,           \* runs of emitter waiting in the handler's queue (26)
  emitterPc,         \* position of the emitter run in progress on the main looper
  registered,        \* per continuous listener: the car contexts it is registered on
  modelRequested,    \* car contexts with a fetchModel request not yet answered
  promise,           \* history: how the latest start call settled its promise
  emitted,           \* history: the payload of the latest telemetry event
  latest,            \* history: per listener, the latest successful reading delivered to it
  owed               \* history: listeners whose latest reading no snapshot has held yet

tvars == <<isRunning, carContext, eventEmitter, telemetry, isTelemetryDirty, pending,
           emitterPc, registered, modelRequested, promise, emitted, latest, owed>>

allVars == <<vars, tvars>>

\* CarValue: a status and a value; a null value and statuses other than
\* STATUS_SUCCESS are Null and Failed.
Null == -1
Success == "STATUS_SUCCESS"
Failed == "STATUS_UNKNOWN"
CarValue(status, value) == [status |-> status, value |-> value]
NoReading == CarValue("none", Null)

NoContext == "<null>"
ContinuousListeners == {"energyLevel", "speed", "mileage"}
NoEvent == [none |-> Null]

\* The object as initialized (20-26): nothing registered, nothing posted.
ObserverFresh ==
  /\ isRunning = FALSE
  /\ carContext = NoContext
  /\ eventEmitter = FALSE
  /\ telemetry = EmptyObject
  /\ isTelemetryDirty = FALSE
  /\ pending = 0
  /\ emitterPc = "idle"
  /\ registered = [l \in ContinuousListeners |-> {}]
  /\ modelRequested = {}
  /\ promise = "none"
  /\ emitted = NoEvent
  /\ latest = [l \in ContinuousListeners |-> NoReading]
  /\ owed = {}

NoFire == [templateId |-> Absent, buttonId |-> Absent]
NothingInvoked == [o \in Owners |-> <<>>]

\* constructor: this.parseConfig({ type: this.type, ...rest, render: component != null })
ConstructorInput(config) == [type |-> "navigation", render |-> FALSE] @@ config

\* The record of one parseConfig call: replaced and removed are the registry
\* keys whose callback the call changed or dropped, repeat says that the call
\* had the same template and input as the call before it.
Call(o, kind, before, input, repeat, r) ==
  [owner |-> o, kind |-> kind, input |-> input, repeat |-> repeat,
   replaced |-> {id \in DOMAIN before \cap DOMAIN r.cb : before[id] # r.cb[id]},
   removed |-> DOMAIN before \ DOMAIN r.cb,
   updatedConfig |-> r.updatedConfig, callbackIds |-> r.callbackIds, gen |-> r.gen]

\* The state in which the first template was constructed; r is the result of
\* its parseConfig call.
ConstructedWith(input, r) ==
  /\ r.next <= MaxGen
  /\ templates = {FirstOwner}
  /\ pressableCallbacks = [o \in Owners |-> IF o = FirstOwner THEN r.cb ELSE EmptyObject]
  /\ nextId = r.next
  /\ lastCall = Call(FirstOwner, "construct", EmptyObject, input, FALSE, r)
  /\ lastFire = NoFire
  /\ invoked = NothingInvoked
  /\ raised = {}
  /\ ObserverFresh

\* The state after new AndroidNavigationBaseTemplate(config) for the first template.
Constructed(config) ==
  ConstructedWith(ConstructorInput(config),
                  ParseConfig(EmptyObject, 0, ConstructorInput(config)))

\* The effect of a parseConfig call of template o with result r.
Apply(o, kind, input, repeat, r) ==
  /\ r.next <= MaxGen
  /\ pressableCallbacks' = [pressableCallbacks EXCEPT ![o] = r.cb]
  /\ nextId' = r.next
  /\ lastCall' = Call(o, kind, pressableCallbacks[o], input, repeat, r)
  /\ lastFire' = NoFire
  /\ invoked' = NothingInvoked
  /\ raised' = {}
  /\ UNCHANGED tvars

\* new AndroidNavigationBaseTemplate(config): parseConfig on the empty
\* registry, then the 'buttonPressed' listener is subscribed.
Construct(o, config) ==
  /\ o \notin templates
  /\ Apply(o, "construct", ConstructorInput(config), FALSE,
           ParseConfig(EmptyObject, nextId, ConstructorInput(config)))
  /\ templates' = templates \cup {o}

\* template.parseConfig(config) on a constructed template (configure).
Configure(o, config) ==
  /\ o \in templates
  /\ Apply(o, "configure", config, lastCall.owner = o /\ lastCall.input = config,
           ParseConfig(pressableCallbacks[o], nextId, config))
  /\ UNCHANGED templates

\* The 'buttonPressed' listener of one template: the callbacks it calls.  It
\* reads buttonId only; the event's templateId is not looked at.
CallIfFunction(callback) == IF callback = Undefined THEN <<>> ELSE <<callback>>

Listener(cb, templateId, buttonId) == CallIfFunction(Lookup(cb, buttonId))

\* CarPlay.emitter emits 'buttonPressed' { templateId, buttonId }: the
\* listener of every constructed template receives it.
Fire(templateId, buttonId) ==
  /\ templateId \in templates
  /\ lastFire' = [templateId |-> templateId, buttonId |-> buttonId]
  /\ invoked' = [o \in Owners |->
                   IF o \in templates
                   THEN Listener(pressableCallbacks[o], templateId, buttonId)
                   ELSE <<>>]
  /\ raised' = {o \in templates :
                  \E i \in DOMAIN invoked'[o] : invoked'[o][i] \in ThrowsWhenCalledBare}
  /\ UNCHANGED <<templates, pressableCallbacks, nextId, lastCall>>
  /\ UNCHANGED tvars

\* ------------------------------------------------- sequence specification
\* One template: after its construction the application calls parseConfig any
\* number of times, each time with any actions list of up to MaxNodes nodes
\* (or with no actions at all), and the host fires events.
Init == \E config \in ActionConfigs : Constructed(config)

Next ==
  \/ \E o \in Owners, config \in ActionConfigs : Configure(o, config)
  \/ \E t \in Owners, b \in FireIds(nextId) : Fire(t, b)

Spec == Init /\ [][Next]_allVars

\* ------------------------------------------------ two-template specification
\* The same, with a second template that the application constructs later.
NextOwners ==
  \/ \E o \in Owners, config \in ActionConfigs : Construct(o, config)
  \/ \E o \in Owners, config \in ActionConfigs : Configure(o, config)
  \/ \E t \in Owners, b \in FireIds(nextId) : Fire(t, b)

SpecOwners == Init /\ [][NextOwners]_allVars

\* ------------------------------------------------ single-call specification
\* The first template is constructed with any configuration of up to
\* MaxWalkNodes nodes; afterwards the application calls parseConfig again with
\* the same input or with the empty configuration, and the host fires events.
InitWalk == \E config \in WalkConfigs : Constructed(config)

NextWalk ==
  \/ \E o \in Owners : Configure(o, lastCall.input)
  \/ \E o \in Owners : Configure(o, EmptyObject)
  \/ \E t \in Owners, b \in FireIds(nextId) : Fire(t, b)

SpecWalk == InitWalk /\ [][NextWalk]_allVars

\* ------------------------------------------------- reading a configuration
FiveSlots == {"actions", "mapButtons", "navigateAction", "pane", "buttons"}

\* The list a slot holds in a raw or clean configuration (<<>> when it has none).
SlotList(config, slot) ==
  CASE slot = "navigateAction" ->
         IF "navigateAction" \in DOMAIN config THEN <<config.navigateAction>> ELSE <<>>
    [] slot = "paneActions" ->
         IF "pane" \in DOMAIN config /\ "actions" \in DOMAIN config.pane
         THEN config.pane.actions ELSE <<>>
    [] OTHER -> IF slot \in DOMAIN config THEN config[slot] ELSE <<>>

\* The places <<slot, index>> of the nodes of a configuration.
NodePositions(config) ==
  UNION {{<<slot, i>> : i \in DOMAIN SlotList(config, slot)} : slot \in Slots}

NodeAt(config, p) == SlotList(config, p[1])[p[2]]

\* The identifier a node carries, as a set: empty when it has none.
IdOf(node) == IF "id" \in DOMAIN node /\ node.id # Undefined THEN {node.id} ELSE {}

CallbackPositions(config) ==
  {p \in NodePositions(config) : "onPress" \in DOMAIN NodeAt(config, p)}

\* The identifiers of the clean configuration of a call that belong to nodes
\* which carried a callback in its input.
CallbackIdsOfCleanConfig(call) ==
  UNION {IdOf(NodeAt(call.updatedConfig, p)) :
           p \in CallbackPositions(call.input) \cap NodePositions(call.updatedConfig)}

IsEmptyConfig(config) == DOMAIN config \cap FiveSlots = {}

\* Every interactive node carries an explicit identifier.
AllExplicit(config) ==
  \A p \in NodePositions(config) : IdOf(NodeAt(config, p)) # {}

Fired == lastFire.buttonId # Absent

\* ------------------------------------------------------------------- claims

\* C1 (No leak): after every parseConfig call the key set of the template's
\* registry is exactly the set of identifiers of the clean configuration whose
\* node carried a callback in that call's input.
NoLeak ==
  DOMAIN pressableCallbacks[lastCall.owner] = CallbackIdsOfCleanConfig(lastCall)

\* C2: once the latest parseConfig call of a template gave an identifier no
\* callback, an event carrying that identifier makes the template's listener
\* call no callback of the application.
StaleCallbackNeverInvoked ==
  (Fired /\ lastFire.buttonId \notin CallbackIdsOfCleanConfig(lastCall))
    => \A i \in DOMAIN invoked[lastCall.owner] : invoked[lastCall.owner][i] \notin Fns

\* C3: when two templates hold a callback under the same identifier, an event
\* addressed to one of them (templateId) makes only that template's listener
\* call its callback.
OnlyAddressedOwnerInvoked ==
  \A o \in templates :
    (/\ Fired
     /\ o # lastFire.templateId
     /\ lastFire.buttonId \in DOMAIN pressableCallbacks[o]
     /\ lastFire.buttonId \in DOMAIN pressableCallbacks[lastFire.templateId])
      => invoked[o] = <<>>

\* C4 (Update semantics): when the callback-bearing nodes of the latest input
\* that carry the explicit identifier x all carry the callback f, the registry
\* maps x to f, whatever earlier calls registered under x, and an event
\* carrying x calls f and nothing else.
LatestCallbackWins ==
  \A x \in ExplicitIds :
    LET o == lastCall.owner
        fs == {NodeAt(lastCall.input, p).onPress :
                 p \in {q \in CallbackPositions(lastCall.input) :
                          IdOf(NodeAt(lastCall.input, q)) = {x}}}
    IN Cardinality(fs) = 1
         => /\ x \in DOMAIN pressableCallbacks[o]
            /\ pressableCallbacks[o][x] \in fs
            /\ lastFire.buttonId = x => invoked[o] = <<pressableCallbacks[o][x]>>

\* C4 witness: the call replaced the callback registered under x, and the
\* event carrying x called the new one.
UpdateWitness ==
  /\ "x" \in lastCall.replaced
  /\ lastFire.buttonId = "x"
  /\ invoked[lastCall.owner] = <<"f2">>

\* C5 (Correct dispatch): with one template, a callback-bearing node whose
\* explicit identifier no other node of the input shares has its callback
\* called exactly once by an event carrying the identifier, and nothing else
\* is called or raised.
CorrectDispatch ==
  \A p \in CallbackPositions(lastCall.input) :
    LET node == NodeAt(lastCall.input, p)
    IN (/\ templates = {lastCall.owner}
        /\ IdOf(node) # {}
        /\ \A q \in NodePositions(lastCall.input) \ {p} :
             IdOf(NodeAt(lastCall.input, q)) # IdOf(node)
        /\ lastFire.buttonId \in IdOf(node))
         => /\ invoked[lastCall.owner] = <<node.onPress>>
            /\ \A o \in Owners \ {lastCall.owner} : invoked[o] = <<>>
            /\ raised = {}

\* C5 witness: the navigateAction carries x and f2, a button without an
\* identifier carries f1, and the event carrying x called f2.
CorrectDispatchWitness ==
  /\ "navigateAction" \in DOMAIN lastCall.input
  /\ lastCall.input.navigateAction = Node("x", "f2")
  /\ SlotList(lastCall.input, "buttons") = <<Node(Absent, "f1")>>
  /\ lastFire.buttonId = "x"
  /\ invoked[lastCall.owner] = <<"f2">>

\* C6 (No dangling dispatch): an event whose identifier is not a key of a
\* template's registry makes its listener call nothing and raise nothing.
NoDanglingDispatch ==
  \A o \in templates :
    (Fired /\ lastFire.buttonId \notin DOMAIN pressableCallbacks[o])
      => invoked[o] = <<>> /\ o \notin raised

\* C7 (Unconditional button id): every button of the input has a descriptor
\* in the clean configuration that carries an identifier.
ButtonsCarryId ==
  \A i \in DOMAIN SlotList(lastCall.input, "buttons") :
    /\ i \in DOMAIN SlotList(lastCall.updatedConfig, "buttons")
    /\ IdOf(SlotList(lastCall.updatedConfig, "buttons")[i]) # {}

\* C8: no node of the five slots of the clean configuration carries a callback.
CleanConfigHasNoCallback ==
  CallbackPositions(lastCall.updatedConfig) = {}

\* C9 (Optional-field omission): an input without navigateAction yields a
\* clean configuration without the navigateAction field and asks the
\* generator for no identifier on its behalf; the empty configuration leaves
\* the registry empty.
NavigateActionOmitted ==
  /\ "navigateAction" \notin DOMAIN lastCall.input
       => /\ ~Has(lastCall.updatedConfig, "navigateAction")
          /\ "navigateAction" \notin Range(lastCall.gen)
  /\ IsEmptyConfig(lastCall.input)
       => pressableCallbacks[lastCall.owner] = EmptyObject

\* C9 witness: the empty configuration was passed to a template whose
\* registry held callbacks, and the clean configuration has no navigateAction.
NavigateActionOmittedWitness ==
  /\ lastCall.kind = "configure"
  /\ IsEmptyConfig(lastCall.input)
  /\ lastCall.removed # {}
  /\ ~Has(lastCall.updatedConfig, "navigateAction")
  /\ pressableCallbacks[lastCall.owner] = EmptyObject

\* C10 (Stability): a parseConfig call with the same input as the call before
\* it, all of whose nodes carry explicit identifiers, yields the same clean
\* configuration and the same registry, and every node of the clean
\* configuration carries the identifier of its input node.
Stability ==
  [][(/\ lastCall'.kind = "configure"
      /\ lastCall'.owner = lastCall.owner
      /\ lastCall'.input = lastCall.input
      /\ AllExplicit(lastCall.input))
       => /\ lastCall'.updatedConfig = lastCall.updatedConfig
          /\ pressableCallbacks' = pressableCallbacks
          /\ \A p \in NodePositions(lastCall'.input) :
               /\ p \in NodePositions(lastCall'.updatedConfig)
               /\ IdOf(NodeAt(lastCall'.updatedConfig, p)) = IdOf(NodeAt(lastCall'.input, p))]_vars

\* C10 witness: the same input, with two callback-bearing nodes that carry
\* explicit identifiers, was passed twice in a row.
StabilityWitness ==
  /\ lastCall.kind = "configure"
  /\ lastCall.repeat
  /\ AllExplicit(lastCall.input)
  /\ Cardinality(CallbackPositions(lastCall.input)) = 2

\* ------------------------------------------------ claims about the walk
\* The four slots whose nodes are actions.
ActionSlots == Slots \ {"buttons"}

\* Callback-bearing actions of a configuration that carry no identifier (the
\* id field is missing, or present without a value).
IdlessCallbackActions(config) ==
  {p \in CallbackPositions(config) :
     p[1] \in ActionSlots /\ IdOf(NodeAt(config, p)) = {}}

\* Actions of a configuration that carry neither an identifier nor a callback.
BareActions(config) ==
  {p \in NodePositions(config) :
     /\ p[1] \in ActionSlots
     /\ IdOf(NodeAt(config, p)) = {}
     /\ "onPress" \notin DOMAIN NodeAt(config, p)}

\* C11: a callback-bearing action without an identifier is registered under a
\* generated identifier that its clean descriptor carries, an event carrying
\* that identifier calls exactly its callback, and two such actions get
\* distinct identifiers.
FreshIdForCallback ==
  \A p \in IdlessCallbackActions(lastCall.input) :
    /\ p \in NodePositions(lastCall.updatedConfig)
    /\ IdOf(NodeAt(lastCall.updatedConfig, p)) # {}
    /\ IdOf(NodeAt(lastCall.updatedConfig, p)) \cap ExplicitIds = {}
    /\ \A g \in IdOf(NodeAt(lastCall.updatedConfig, p)) :
         /\ g \in DOMAIN pressableCallbacks[lastCall.owner]
         /\ pressableCallbacks[lastCall.owner][g] = NodeAt(lastCall.input, p).onPress
         /\ lastFire.buttonId = g
              => invoked[lastCall.owner] = <<NodeAt(lastCall.input, p).onPress>>
    /\ \A q \in IdlessCallbackActions(lastCall.input) \ {p} :
         q \in NodePositions(lastCall.updatedConfig)
           => IdOf(NodeAt(lastCall.updatedConfig, q)) # IdOf(NodeAt(lastCall.updatedConfig, p))

\* C12: an action with neither identifier nor callback asks the generator for
\* no identifier, is returned unchanged and adds nothing to callbackIds: a
\* slot whose actions are all of that kind generated nothing and is passed
\* through, and callbackIds has no more entries than there are other nodes.
BareActionLeavesNoTrace ==
  /\ \A slot \in ActionSlots :
       (/\ SlotList(lastCall.input, slot) # <<>>
        /\ \A i \in DOMAIN SlotList(lastCall.input, slot) :
             <<slot, i>> \in BareActions(lastCall.input))
         => /\ slot \notin Range(lastCall.gen)
            /\ SlotList(lastCall.updatedConfig, slot) = SlotList(lastCall.input, slot)
  /\ Len(lastCall.callbackIds)
       <= Cardinality(NodePositions(lastCall.input) \ BareActions(lastCall.input))

\* The order in which parseConfig walks the slots, and the place of a slot in
\* an order.
WalkOrder == <<"paneActions", "buttons", "actions", "mapButtons", "navigateAction">>
SlotRank(order, slot) == CHOOSE i \in DOMAIN order : order[i] = slot

\* Node p is processed after node q when the slots are walked in the order.
Later(order, p, q) ==
  \/ SlotRank(order, p[1]) > SlotRank(order, q[1])
  \/ p[1] = q[1] /\ p[2] > q[2]

\* The callback-bearing nodes of a configuration that carry the identifier x.
CallbackNodesWithId(config, x) ==
  {p \in CallbackPositions(config) : IdOf(NodeAt(config, p)) = {x}}

\* When several callback-bearing nodes share the explicit identifier x, the
\* registry maps x to the callback of the one that is last in the order, and
\* an event carrying x calls that callback only.
LastInOrderWins(order) ==
  \A x \in ExplicitIds :
    Cardinality(CallbackNodesWithId(lastCall.input, x)) >= 2
      => \E p \in CallbackNodesWithId(lastCall.input, x) :
           /\ \A q \in CallbackNodesWithId(lastCall.input, x) \ {p} : Later(order, p, q)
           /\ x \in DOMAIN pressableCallbacks[lastCall.owner]
           /\ pressableCallbacks[lastCall.owner][x] = NodeAt(lastCall.input, p).onPress
           /\ lastFire.buttonId = x
                => invoked[lastCall.owner] = <<NodeAt(lastCall.input, p).onPress>>

\* C13 (as stated): the later node wins in the order top-level actions,
\* mapButtons, navigateAction, pane actions, buttons.
LaterNodeWinsInListedOrder == LastInOrderWins(SlotOrder)

\* C13 (amended): the later node wins in the order in which parseConfig walks
\* the slots: pane actions, buttons, top-level actions, mapButtons,
\* navigateAction.
LaterNodeWinsInWalkOrder == LastInOrderWins(WalkOrder)

\* C13 witness: a top-level action and a button share x with different
\* callbacks; the event carrying x called the action's callback.
LaterNodeWinsWitness ==
  /\ SlotList(lastCall.input, "actions") = <<Node("x", "f1")>>
  /\ SlotList(lastCall.input, "buttons") = <<Node("x", "f2")>>
  /\ lastFire.buttonId = "x"
  /\ invoked[lastCall.owner] = <<"f1">>

\* C14: the prune runs after the whole walk against the complete callbackIds,
\* so no callback registered by a call is removed by it: the identifier that
\* the clean descriptor of a callback-bearing node carries is a key of the
\* registry, and is in callbackIds.
RegisteredSurvivesPrune ==
  \A p \in CallbackPositions(lastCall.input) \cap NodePositions(lastCall.updatedConfig) :
    /\ IdOf(NodeAt(lastCall.updatedConfig, p)) \subseteq DOMAIN pressableCallbacks[lastCall.owner]
    /\ IdOf(NodeAt(lastCall.updatedConfig, p)) \subseteq Range(lastCall.callbackIds)

\* C14 witness: a reconfiguration removed an older entry while the callbacks
\* of a pane action (walked first) and of the navigateAction (walked last)
\* are both in the registry.
RegisteredSurvivesPruneWitness ==
  /\ SlotList(lastCall.input, "paneActions") = <<Node(Absent, "f1")>>
  /\ SlotList(lastCall.input, "navigateAction") = <<Node("x", "f2")>>
  /\ DOMAIN pressableCallbacks[lastCall.owner] = {"x", GenId(nextId)}
  /\ lastCall.kind = "configure"
  /\ lastCall.removed # {}

\* C15: each list of the clean configuration has the length of the input
\* list, and its i-th element is the i-th input element normalized: without
\* callback, with the element's explicit identifier if it has one, else with
\* no identifier or a generated one under which the element's callback is
\* registered; an element without callback and identifier keeps its fields.
ListSlots == {"actions", "mapButtons", "paneActions", "buttons"}

ElementwiseNormalized ==
  \A slot \in ListSlots :
    /\ Len(SlotList(lastCall.updatedConfig, slot)) = Len(SlotList(lastCall.input, slot))
    /\ \A i \in DOMAIN SlotList(lastCall.input, slot) :
         LET in == SlotList(lastCall.input, slot)[i]
             out == SlotList(lastCall.updatedConfig, slot)[i]
         IN /\ IdOf(in) # {} => IdOf(out) = IdOf(in)
            /\ IdOf(in) = {} => IdOf(out) \cap ExplicitIds = {}
            /\ DOMAIN out \ {"id", "onPress"} = DOMAIN in \ {"id", "onPress"}
            /\ ("onPress" \in DOMAIN in /\ IdOf(in) = {})
                 => \A g \in IdOf(out) :
                      /\ g \in DOMAIN pressableCallbacks[lastCall.owner]
                      /\ pressableCallbacks[lastCall.owner][g] = in.onPress
            /\ "onPress" \notin DOMAIN in => out = in

\* C15 witness: a list of two different elements, the first with the explicit
\* identifier and no callback, the second with a callback registered under a
\* generated identifier.
ElementwiseNormalizedWitness ==
  /\ SlotList(lastCall.input, "mapButtons") = <<Node("x", Absent), Node(Absent, "f2")>>
  /\ SlotList(lastCall.updatedConfig, "mapButtons") = <<Node("x", Absent), Node(GenId(nextId), Absent)>>
  /\ pressableCallbacks[lastCall.owner] = (GenId(nextId) :> "f2")

\* ===================================================== telemetry observer
\* ---------------------------------------------------------------- bounds
\* runs of emitter that may wait in the handler's queue
MaxPending == 2

\* ---------------------------------------------------------------- domains
\* Car contexts: two hosts of API level 3 and one below it.
Contexts == {"A", "B", "old"}
LEVEL_3 == 3
CarAppApiLevel(c) == IF c = "old" THEN LEVEL_3 - 1 ELSE LEVEL_3

\* The CarInfo calls of a start call that may throw SecurityException.
Requests == {"model"} \cup ContinuousListeners
\* Sets of calls that do not throw: all of them, or all but the speed calls.
Grants == {Requests, Requests \ {"speed"}}

EnergyLevel(battery, fuel, range) ==
  [batteryPercent |-> battery, fuelPercent |-> fuel, rangeRemainingMeters |-> range]

Model(name, manufacturer, year) == [name |-> name, manufacturer |-> manufacturer, year |-> year]

SpeedReadings == {CarValue(Failed, Null), CarValue(Success, Null), CarValue(Success, 5)}
MileageReadings == {CarValue(Failed, Null), CarValue(Success, Null), CarValue(Success, 1000)}
EnergyLevelReadings ==
  {EnergyLevel(CarValue(Failed, Null), CarValue(Failed, Null), CarValue(Failed, Null)),
   EnergyLevel(CarValue(Success, 50), CarValue(Failed, Null), CarValue(Failed, Null)),
   EnergyLevel(CarValue(Success, 50), CarValue(Success, Null), CarValue(Success, 2000)),
   EnergyLevel(CarValue(Success, Null), CarValue(Success, 40), CarValue(Success, Null))}
ModelReadings ==
  {Model(CarValue(Success, "name"), CarValue(Success, "manufacturer"), CarValue(Success, 2020)),
   Model(CarValue(Failed, "<null>"), CarValue(Success, "manufacturer"), CarValue(Success, Null))}

\* --------------------------------------------------------------- listeners
\* An entry of a map is its value; the timestamp (the time of the write) is
\* left out.  telemetry.putMap(key, { value, timestamp })
Put(map, key, value) == (key :> value) @@ map

\* it.times(3.6): metres per second to km/h;  it.div(1000.0): metres to km
KmPerHour(v) == (v * 36) \div 10
Km(v) == v \div 1000

\* The state s = [telemetry, dirty] the listeners work on.
\* if (status == SUCCESS) { value?.let { put(key, converted) } ?: run { put(key, null) }; dirty = true }
PutIfSuccess(s, key, carValue, converted) ==
  IF carValue.status = Success
  THEN [telemetry |-> Put(s.telemetry, key, IF carValue.value = Null THEN Null ELSE converted),
        dirty |-> TRUE]
  ELSE s

\* mEnergyLevelListener: batteryLevel, fuelLevel, range in turn
EnergyLevelListener(s, r) ==
  PutIfSuccess(
    PutIfSuccess(
      PutIfSuccess(s, "batteryLevel", r.batteryPercent, r.batteryPercent.value),
      "fuelLevel", r.fuelPercent, r.fuelPercent.value),
    "range", r.rangeRemainingMeters, Km(r.rangeRemainingMeters.value))

\* mSpeedListener: a value is written to "odometer", a null value to "speed"
SpeedListener(s, r) ==
  IF r.status # Success THEN s
  ELSE IF r.value # Null
       THEN [telemetry |-> Put(s.telemetry, "odometer", KmPerHour(r.value)), dirty |-> TRUE]
       ELSE [telemetry |-> Put(s.telemetry, "speed", Null), dirty |-> TRUE]

\* mMileageListener
MileageListener(s, r) == PutIfSuccess(s, "odometer", r, Km(r.value))

\* mModelListener: the vehicle map of the single-shot event
VehiclePut(vehicle, key, carValue) ==
  IF carValue.status = Success THEN Put(vehicle, key, carValue.value) ELSE vehicle

Vehicle(r) ==
  VehiclePut(VehiclePut(VehiclePut(EmptyObject, "name", r.name),
                        "manufacturer", r.manufacturer),
             "year", r.year)

\* A reading is a successful one when a field of it has STATUS_SUCCESS.
Successful(l, r) ==
  IF l = "energyLevel"
  THEN \E f \in DOMAIN r : r[f].status = Success
  ELSE r.status = Success

Run(l, s, r) ==
  CASE l = "energyLevel" -> EnergyLevelListener(s, r)
    [] l = "speed" -> SpeedListener(s, r)
    [] l = "mileage" -> MileageListener(s, r)

\* ------------------------------------------------------ history of readings
\* The entry of a map under a key, as a set: empty when there is none.
Entry(map, key) == IF key \in DOMAIN map THEN {map[key]} ELSE {}

\* What a snapshot holds of a reading: the entry of every field that has
\* STATUS_SUCCESS, under the listener's key, converted.
ValueOf(carValue, converted) == IF carValue.value = Null THEN Null ELSE converted

Holds(event, key, carValue, converted) ==
  carValue.status = Success => Entry(event, key) = {ValueOf(carValue, converted)}

Contains(event, l, r) ==
  CASE l = "energyLevel" ->
         /\ Holds(event, "batteryLevel", r.batteryPercent, r.batteryPercent.value)
         /\ Holds(event, "fuelLevel", r.fuelPercent, r.fuelPercent.value)
         /\ Holds(event, "range", r.rangeRemainingMeters, Km(r.rangeRemainingMeters.value))
    [] l = "speed" -> Holds(event, "speed", r, KmPerHour(r.value))
    [] l = "mileage" -> Holds(event, "odometer", r, Km(r.value))

\* ----------------------------------------------------------------- actions
\* The car hardware delivers reading r of car context c to listener l, on the
\* main executor: between the runs of the main looper.
DeliverTo(l, c, s) ==
  /\ c \in registered[l]
  /\ emitterPc = "idle"
  /\ telemetry' = s.telemetry
  /\ isTelemetryDirty' = s.dirty
  /\ UNCHANGED <<isRunning, carContext, eventEmitter, pending, emitterPc, registered,
                 modelRequested, promise, emitted>>
  /\ UNCHANGED vars

Deliver(l, c, r) ==
  /\ DeliverTo(l, c, Run(l, [telemetry |-> telemetry, dirty |-> isTelemetryDirty], r))
  /\ latest' = IF Successful(l, r) THEN [latest EXCEPT ![l] = r] ELSE latest
  /\ owed' = IF Successful(l, r) THEN owed \cup {l} ELSE owed

\* The answer to a fetchModel request: eventEmitter?.telemetry({ vehicle })
DeliverModel(c, r) ==
  /\ c \in modelRequested
  /\ emitterPc = "idle"
  /\ modelRequested' = modelRequested \ {c}
  /\ emitted' = IF eventEmitter THEN [vehicle |-> Vehicle(r)] ELSE emitted
  /\ UNCHANGED <<isRunning, carContext, eventEmitter, telemetry, isTelemetryDirty, pending,
                 emitterPc, registered, promise, latest, owed>>
  /\ UNCHANGED vars

\* emitter.run(), up to the postDelayed: the main looper takes the run from
\* the queue; if (isTelemetryDirty) { emit a copy of telemetry; clear the flag }
EmitterRun ==
  /\ pending > 0
  /\ emitterPc = "idle"
  /\ pending' = pending - 1
  /\ emitterPc' = "posting"
  /\ emitted' = IF isTelemetryDirty /\ eventEmitter THEN telemetry ELSE emitted
  /\ isTelemetryDirty' = FALSE
  /\ owed' = IF isTelemetryDirty /\ eventEmitter
             THEN {l \in owed : ~Contains(telemetry, l, latest[l])}
             ELSE owed
  /\ UNCHANGED <<isRunning, carContext, eventEmitter, telemetry, registered, modelRequested,
                 promise, latest>>
  /\ UNCHANGED vars

\* handler.postDelayed(this, CARPLAY_TELEMETRY_INTERVAL_MS), the end of the run
EmitterPost ==
  /\ emitterPc = "posting"
  /\ pending' = pending + 1
  /\ emitterPc' = "idle"
  /\ UNCHANGED <<isRunning, carContext, eventEmitter, telemetry, isTelemetryDirty, registered,
                 modelRequested, promise, emitted, latest, owed>>
  /\ UNCHANGED vars

\* The runs of emitter posted or about to be posted.
Scheduled == pending + (IF emitterPc = "posting" THEN 1 ELSE 0)

\* startTelemetryObserver from the isRunning test on (198-223)
StartContinuous(c, granted) ==
  IF isRunning
  THEN /\ promise' = "already running"
       /\ UNCHANGED <<isRunning, pending, registered>>
  ELSE /\ Scheduled < MaxPending
       /\ registered' = [l \in ContinuousListeners |->
                           IF l \in granted THEN registered[l] \cup {c} ELSE registered[l]]
       /\ pending' = pending + 1
       /\ isRunning' = TRUE
       /\ promise' = "started"

\* startTelemetryObserver(carContext, eventEmitter, promise); granted are the
\* CarInfo calls that do not throw SecurityException.  It is called by the
\* module off the main looper: at any point between the steps of emitter.
Start(c, granted) ==
  /\ carContext' = c
  /\ eventEmitter' = TRUE
  /\ IF CarAppApiLevel(c) < LEVEL_3
     THEN /\ promise' = "rejected"
          /\ UNCHANGED <<isRunning, pending, registered, modelRequested>>
     ELSE /\ modelRequested' = IF "model" \in granted THEN modelRequested \cup {c}
                               ELSE modelRequested
          /\ StartContinuous(c, granted)
  /\ UNCHANGED <<telemetry, isTelemetryDirty, emitterPc, emitted, latest, owed>>
  /\ UNCHANGED vars

\* stopTelemetryObserver(): the listeners are removed from the car context
\* that carContext holds (a listener that is registered was added without a
\* SecurityException, so its removal does not throw one); the runs of emitter
\* waiting in the queue are removed.  Called off the main looper, as Start.
Stop ==
  /\ registered' = [l \in ContinuousListeners |-> registered[l] \ {carContext}]
  /\ pending' = 0
  /\ isRunning' = FALSE
  /\ UNCHANGED <<carContext, eventEmitter, telemetry, isTelemetryDirty, emitterPc,
                 modelRequested, promise, emitted, latest, owed>>
  /\ UNCHANGED vars

\* ------------------------------------------------- observer specification
\* The module starts and stops the observer with any car context, the main
\* looper runs emitter, and the speed listener gets readings without a value.
InitObserver == Constructed(EmptyObject)

NextObserver ==
  \/ \E c \in Contexts, granted \in Grants : Start(c, granted)
  \/ Stop
  \/ EmitterRun
  \/ EmitterPost
  \/ \E c \in Contexts : Deliver("speed", c, CarValue(Success, Null))

SpecObserver == InitObserver /\ [][NextObserver]_allVars

\* ------------------------------------------------ telemetry specification
\* The observer is started on one car context with every call granted and is
\* never stopped; the listeners get every reading.
NextTelemetry ==
  \/ Start("A", Requests)
  \/ EmitterRun
  \/ EmitterPost
  \/ \E r \in EnergyLevelReadings : Deliver("energyLevel", "A", r)
  \/ \E r \in SpeedReadings : Deliver("speed", "A", r)
  \/ \E r \in MileageReadings : Deliver("mileage", "A", r)
  \/ \E r \in ModelReadings : DeliverModel("A", r)

SpecTelemetry == InitObserver /\ [][NextTelemetry]_allVars

\* The main looper runs every message of its queue, and a run of emitter
\* reaches its postDelayed.
SpecTelemetryFair ==
  SpecTelemetry /\ WF_allVars(EmitterRun) /\ WF_allVars(EmitterPost)

\* ------------------------------------------- claims about the observer

\* C16: after any sequence of start and stop calls every continuous listener
\* is registered at most once and at most one run of emitter is scheduled.
RegisteredAndPostedOnce ==
  /\ \A l \in ContinuousListeners : Cardinality(registered[l]) <= 1
  /\ Scheduled <= 1

\* C17: while the observer is stopped no run of emitter waits in the queue:
\* none is pending after stopTelemetryObserver and none is scheduled again
\* before the next start.
NoEmitterWhileStopped ==
  (~isRunning /\ emitterPc = "idle") => pending = 0

\* C18: while the observer is stopped no continuous listener is registered on
\* any car context.
NoListenerWhileStopped ==
  ~isRunning => \A l \in ContinuousListeners : registered[l] = {}

\* The entries of the telemetry map that a listener is to write.
TelemetryKeys == {"batteryLevel", "fuelLevel", "range", "speed", "odometer"}
OwnKeys(l) ==
  CASE l = "energyLevel" -> {"batteryLevel", "fuelLevel", "range"}
    [] l = "speed" -> {"speed"}
    [] l = "mileage" -> {"odometer"}

\* C19: a step in which a listener took a reading leaves every entry of the
\* telemetry map that is not the listener's own as it was.
ListenersWriteOwnKeys ==
  [][\A l \in ContinuousListeners :
       latest'[l] # latest[l]
         => \A k \in TelemetryKeys \ OwnKeys(l) : Entry(telemetry', k) = Entry(telemetry, k)]_allVars

\* C20: while the observer runs and the main looper keeps running emitter,
\* the latest successful reading of every listener is eventually contained
\* in an emitted snapshot: no listener stays owed forever.
ReadingsReachSnapshot ==
  \A l \in ContinuousListeners : (isRunning /\ l \in owed) ~> (l \notin owed \/ ~isRunning)

====
